---------------------------- MODULE Spec2Model ----------------------------
(***************************************************************************)
(* Proxy rotation state machine (src/src/proxyRotator.js) and the retry   *)
(* orchestrator makeProxyRequest built on it (src/server.js).              *)
(*                                                                         *)
(* The server runs on one event loop: a handler runs without interruption  *)
(* until it awaits.  makeProxyRequest awaits only at `await axios(config)`,*)
(* so one forwarded request is a Start step (entry up to the first await   *)
(* or throw) followed by Resume steps (Transport completion up to the next *)
(* await, return or throw).  Several forwarded requests share the one      *)
(* ProxyRotator instance and interleave at these awaits.                   *)
(***************************************************************************)
EXTENDS Integers, Sequences, FiniteSets, TLC

(***************************************************************************)
(* Bounds of the model.                                                    *)
(***************************************************************************)
MaxPool == 2      \* longest proxy list POST /api/proxies is given
NumCalls == 2     \* forwarded requests that can be in flight together
MaxDay == 2       \* calendar days the clock advances past day 0

Calls == 1 .. NumCalls

(***************************************************************************)
(* The Transport collaborator (axios through a proxy agent).  What a proxy *)
(* does is a property of the proxy server, outside the program: one proxy  *)
(* always answers 2xx, one always fails, one may do anything.              *)
(***************************************************************************)
ProxyUp == "up.example:8080"
ProxyDown == "down.example:8080"
ProxyFlaky == "flaky.example:8080"
ProxyUniverse == {ProxyUp, ProxyDown, ProxyFlaky}
NoProxy == "none"

Statuses == {199, 200, 299, 300}

Response(s) == [kind |-> "response", status |-> s]
TransportError == [kind |-> "error", status |-> 0]

\* Faulty variant: the upper limit of the success range is included.
IsSuccessStatusInclusive(s) == s >= 200 /\ s <= 300

IsSuccessStatus(s) == s >= 200 /\ s < 300

TransportOutcomes(proxy) ==
  LET ok == {Response(s) : s \in {t \in Statuses : IsSuccessStatus(t)}}
      bad == {Response(s) : s \in {t \in Statuses : ~IsSuccessStatus(t)}}
               \cup {TransportError}
  IN  CASE proxy = ProxyUp -> ok
        [] proxy = ProxyDown -> bad
        [] OTHER -> ok \cup bad

(***************************************************************************)
(* Values of the orchestrator's locals.                                    *)
(***************************************************************************)
NoIndex == 0 - 1                       \* `selected` is null
\* lastError: null, the error axios threw, or the Error the orchestrator
\* throws for a response outside [200, 300).
NoError == "null"
StatusError == "Request failed with status"
NetworkError == "transport error"

ErrorOf(outcome) ==
  IF outcome.kind = "error" THEN NetworkError ELSE StatusError

Pending == [kind |-> "pending", status |-> 0, proxyUsed |-> NoProxy,
            lastError |-> NoError]
Success(s, p) == [kind |-> "success", status |-> s, proxyUsed |-> p,
                  lastError |-> NoError]
Thrown(k, e) == [kind |-> k, status |-> 0, proxyUsed |-> NoProxy,
                 lastError |-> e]

\* The error the thrown message quotes as "Last error: ...".
messageError(res) ==
  IF res.kind \in {"AllProxiesFailed", "MaxAttemptsExceeded"}
  THEN res.lastError ELSE NoError

FatalKinds == {"NoProxiesConfigured", "AllProxiesFailed", "MaxAttemptsExceeded"}

VARIABLES
  proxies,           \* ProxyRotator.proxies: the pool, index i is proxies[i+1]
  failedProxies,     \* ProxyRotator.failedProxies (failedThisCycle)
  usedProxiesToday,  \* ProxyRotator.usedProxiesToday (usedThisPeriod)
  periodStartDate,   \* ProxyRotator.periodStartDate, as a day number
  today,             \* the calendar day getCurrentDate() reads
  pc,                \* per forwarded request: "idle", "await" or "done"
  attempt,           \* makeProxyRequest: attempt
  totalProxies,      \* makeProxyRequest: totalProxies (maxAttempts is twice it)
  proxyIndex,        \* makeProxyRequest: proxyIndex of the attempt in flight
  currentProxy,      \* makeProxyRequest: currentProxy of the attempt in flight
  lastError,         \* makeProxyRequest: lastError
  result,            \* what makeProxyRequest returned or threw
  sent,              \* history: Transport invocations of the request
  failedHere,        \* history: indices whose attempt failed in the request
  stale,             \* history: the pool was replaced since the request began
  periodServes,      \* history: successes per index since usedProxiesToday
                     \*          was last cleared (counted up to 2)
  firstServed,       \* history: indices serving the requests since the pool
                     \*          was replaced, while nothing failed or rolled
  outdated,          \* history: the index in flight was selected from a pool
                     \*          that has been replaced since
  interleaved,       \* history: another request took a step while this
                     \*          one was awaiting its Transport call
  called             \* history: the last call made on the rotator from
                     \*          outside makeProxyRequest, with the rotator's
                     \*          fields before it

rotVars == <<proxies, failedProxies, usedProxiesToday, periodStartDate>>
callVars == <<pc, attempt, totalProxies, proxyIndex, currentProxy, lastError,
              result>>
histVars == <<sent, failedHere, stale, periodServes, firstServed, outdated,
              interleaved>>
vars == <<rotVars, today, callVars, histVars, called>>

(***************************************************************************)
(* ProxyRotator.  The operators take and return the rotator's fields as a  *)
(* record; `now` is the day getCurrentDate() returns.                      *)
(***************************************************************************)
Rot == [proxies |-> proxies, failedProxies |-> failedProxies,
        usedProxiesToday |-> usedProxiesToday,
        periodStartDate |-> periodStartDate]

Indices(p) == 0 .. (Len(p) - 1)

Max(a, b) == IF a >= b THEN a ELSE b

\* new ProxyRotator(initial), constructed on day `now`.
constructor(initial, now) ==
  [proxies |-> initial, failedProxies |-> {}, usedProxiesToday |-> {},
   periodStartDate |-> now]

getDaysSincePeriodStart(r, now) == Max(0, now - r.periodStartDate)

\* Faulty variant: the period ends a day late.
checkAndResetDailyUsageLate(r, now) ==
  IF Len(r.proxies) = 0 THEN r
  ELSE IF getDaysSincePeriodStart(r, now) > 2
       THEN [r EXCEPT !.usedProxiesToday = {}, !.periodStartDate = now]
       ELSE IF Cardinality(r.usedProxiesToday) >= Len(r.proxies)
               /\ Len(r.proxies) > 0
            THEN [r EXCEPT !.usedProxiesToday = {}]
            ELSE r

\* Faulty variant: a fully used pool does not start a new cycle.
checkAndResetDailyUsageNoCycle(r, now) ==
  IF Len(r.proxies) = 0 THEN r
  ELSE IF getDaysSincePeriodStart(r, now) >= 2
       THEN [r EXCEPT !.usedProxiesToday = {}, !.periodStartDate = now]
       ELSE r

checkAndResetDailyUsage(r, now) ==
  IF Len(r.proxies) = 0 THEN r
  ELSE IF getDaysSincePeriodStart(r, now) >= 2
       THEN [r EXCEPT !.usedProxiesToday = {}, !.periodStartDate = now]
       ELSE IF Cardinality(r.usedProxiesToday) >= Len(r.proxies)
               /\ Len(r.proxies) > 0
            THEN [r EXCEPT !.usedProxiesToday = {}]
            ELSE r

\* Faulty variant: the per-period quota is not consulted.
availableProxiesNoQuota(r) ==
  {i \in Indices(r.proxies) : i \notin r.failedProxies}

\* Faulty variant: the failures of the cycle are not consulted while
\* unused proxies are left.
availableProxiesRetrying(r) ==
  {i \in Indices(r.proxies) : i \notin r.usedProxiesToday}

\* The indices Math.random() chooses among, after the reset check.
availableProxies(r) ==
  {i \in Indices(r.proxies) :
     i \notin r.usedProxiesToday /\ i \notin r.failedProxies}

\* Faulty variant: the fallback forgets the failures of the cycle.
fallbackProxiesAll(r) == Indices(r.proxies)

\* Faulty variant: there is no fallback past the quota of the period.
fallbackProxiesNone(r) == {}

fallbackProxies(r) ==
  {i \in Indices(r.proxies) : i \notin r.failedProxies}

\* Faulty variant: the proxy is marked used as soon as it is selected.
getRandomProxyEager(r, now) ==
  IF Len(r.proxies) = 0 THEN {[rot |-> r, index |-> NoIndex]}
  ELSE LET r1 == checkAndResetDailyUsage(r, now)
           Marked(i) == [r1 EXCEPT !.usedProxiesToday = @ \cup {i}]
       IN  IF availableProxies(r1) = {}
           THEN IF fallbackProxies(r1) = {}
                THEN {[rot |-> r1, index |-> NoIndex]}
                ELSE {[rot |-> Marked(i), index |-> i] :
                        i \in fallbackProxies(r1)}
           ELSE {[rot |-> Marked(i), index |-> i] : i \in availableProxies(r1)}

\* Every [rot, index] a call of getRandomProxy can produce.
getRandomProxy(r, now) ==
  IF Len(r.proxies) = 0 THEN {[rot |-> r, index |-> NoIndex]}
  ELSE LET r1 == checkAndResetDailyUsage(r, now)
       IN  IF availableProxies(r1) = {}
           THEN IF fallbackProxies(r1) = {}
                THEN {[rot |-> r1, index |-> NoIndex]}
                ELSE {[rot |-> r1, index |-> i] : i \in fallbackProxies(r1)}
           ELSE {[rot |-> r1, index |-> i] : i \in availableProxies(r1)}

\* Faulty variant: the success is not recorded.
markUsedTodayDropped(r, proxyIdx) == r

\* Faulty variant: the index is not checked against the pool.
markUsedTodayUnchecked(r, proxyIdx) ==
  IF proxyIdx # NoIndex
  THEN [r EXCEPT !.usedProxiesToday = @ \cup {proxyIdx}]
  ELSE r

markUsedToday(r, proxyIdx) ==
  IF proxyIdx # NoIndex /\ proxyIdx >= 0 /\ proxyIdx < Len(r.proxies)
  THEN [r EXCEPT !.usedProxiesToday = @ \cup {proxyIdx}]
  ELSE r

\* Faulty variant: the failure is not recorded.
markFailedDropped(r, proxyIdx) == r

\* Faulty variant: the index is not checked against the pool.
markFailedUnchecked(r, proxyIdx) ==
  IF proxyIdx # NoIndex
  THEN [r EXCEPT !.failedProxies = @ \cup {proxyIdx}]
  ELSE r

markFailed(r, proxyIdx) ==
  IF proxyIdx # NoIndex /\ proxyIdx >= 0 /\ proxyIdx < Len(r.proxies)
  THEN [r EXCEPT !.failedProxies = @ \cup {proxyIdx}]
  ELSE r

\* Faulty variant: the failures of the cycle are kept.
resetFailedProxiesKept(r) == r

resetFailedProxies(r) == [r EXCEPT !.failedProxies = {}]

getRemainingProxiesCount(r, now) ==
  LET r1 == checkAndResetDailyUsage(r, now)
  IN  [rot |-> r1,
       value |-> IF Len(r1.proxies) = 0 THEN 0
                 ELSE Max(0, Len(r1.proxies) - Cardinality(r1.usedProxiesToday))]

getUsedProxiesCount(r, now) ==
  LET r1 == checkAndResetDailyUsage(r, now)
  IN  [rot |-> r1, value |-> Cardinality(r1.usedProxiesToday)]

getDaysRemainingInPeriod(r, now) == Max(0, 2 - getDaysSincePeriodStart(r, now))

getProxyCount(r) == Len(r.proxies)

\* Faulty variant: the usage of the period survives the replacement.
updateProxiesKeepUsage(r, newProxies, now) ==
  [proxies |-> newProxies, failedProxies |-> {},
   usedProxiesToday |-> r.usedProxiesToday, periodStartDate |-> now]

updateProxies(r, newProxies, now) ==
  [proxies |-> newProxies, failedProxies |-> {}, usedProxiesToday |-> {},
   periodStartDate |-> now]


(***************************************************************************)
(* makeProxyRequest: the `while (true)` loop from its top up to the next  *)
(* `await axios(config)` or throw.  `att` is the attempt counter on entry  *)
(* to the iteration; the result is every [rot, attempt, kind, index] the   *)
(* run can end in, kind "await" meaning the Transport call was issued for  *)
(* the proxy at `index`.                                                   *)
(***************************************************************************)
\* Faulty variants: a looser and a tighter safety limit.
maxAttemptsTripled(total) == total * 3
maxAttemptsSingle(total) == total

maxAttemptsOf(total) == total * 2

\* Faulty variant: the all-failed test is strict.
onNoneSelectedStrict(remaining, failed, total) ==
  IF remaining = 0 /\ failed < total THEN "retry"
  ELSE IF failed > total THEN "AllProxiesFailed"
       ELSE "NoProxiesAvailable"

\* What the loop does when getRandomProxy returned null.
onNoneSelected(remaining, failed, total) ==
  IF remaining = 0 /\ failed < total THEN "retry"
  ELSE IF failed >= total THEN "AllProxiesFailed"
       ELSE "NoProxiesAvailable"

RECURSIVE retryLoop(_, _, _, _)
retryLoop(r, att, total, now) ==
  LET a == att + 1
      Ends(r2, k, i) == [rot |-> r2, attempt |-> a, kind |-> k, index |-> i]
  IN  IF a > maxAttemptsOf(total)
      THEN {Ends(r, "MaxAttemptsExceeded", NoIndex)}
      ELSE UNION {
             LET rem == getRemainingProxiesCount(s.rot, now)
                 failed == Cardinality(rem.rot.failedProxies)
                 what == onNoneSelected(rem.value, failed, total)
             IN  IF s.index = NoIndex
                 THEN IF what = "retry"
                      THEN retryLoop(resetFailedProxies(rem.rot), a, total, now)
                      ELSE {Ends(rem.rot, what, NoIndex)}
                 ELSE {Ends(rem.rot, "await", s.index)}
             : s \in getRandomProxy(r, now)}

(***************************************************************************)
(* History bookkeeping shared by the steps.                                *)
(***************************************************************************)
\* usedProxiesToday.clear() ran between rotator states r and r2.
usageCleared(r, r2) ==
  \/ r2.periodStartDate # r.periodStartDate
  \/ r.usedProxiesToday # {} /\ r2.usedProxiesToday = {}

NoServes(p) == [i \in Indices(p) |-> 0]

ServesAfterLoop(serves, r, r2) ==
  IF usageCleared(r, r2) THEN NoServes(r2.proxies) ELSE serves

NoLog == [valid |-> FALSE, idx |-> << >>]

\* A call of `op` with argument `arg` that returned `ret`, made on day `now`
\* on a rotator whose fields were `before`.
Call(op, arg, ret, before, now) ==
  [op |-> op, arg |-> arg, ret |-> ret, before |-> before, now |-> now]

NoCall == Call("none", NoIndex, NoIndex, constructor(<< >>, 0), 0)

SetRot(r) ==
  /\ proxies' = r.proxies
  /\ failedProxies' = r.failedProxies
  /\ usedProxiesToday' = r.usedProxiesToday
  /\ periodStartDate' = r.periodStartDate

\* Request c runs from one await to the next while the others wait for
\* their Transport calls.
Interleaves(c) ==
  [d \in Calls |-> IF d = c THEN interleaved[c]
                   ELSE interleaved[d] \/ pc[d] = "await"]

\* The request leaves the loop in outcome o, with lastError e.
Continue(c, o, e) ==
  /\ SetRot(o.rot)
  /\ attempt' = [attempt EXCEPT ![c] = o.attempt]
  /\ proxyIndex' = [proxyIndex EXCEPT ![c] = o.index]
  /\ IF o.kind = "await"
     THEN /\ pc' = [pc EXCEPT ![c] = "await"]
          /\ lastError' = [lastError EXCEPT ![c] = e]
          /\ currentProxy' = [currentProxy EXCEPT ![c] = o.rot.proxies[o.index + 1]]
          /\ result' = [result EXCEPT ![c] = Pending]
     ELSE /\ pc' = [pc EXCEPT ![c] = "done"]
          /\ lastError' = [lastError EXCEPT ![c] = NoError]
          /\ currentProxy' = [currentProxy EXCEPT ![c] = NoProxy]
          /\ result' = [result EXCEPT ![c] = Thrown(o.kind, e)]

(***************************************************************************)
(* makeProxyRequest, from its entry to the first await or throw.           *)
(***************************************************************************)
Start(c) ==
  /\ pc[c] \in {"idle", "done"}
  /\ LET r0 == resetFailedProxies(Rot)
     IN  IF getProxyCount(r0) = 0
         THEN /\ SetRot(r0)
              /\ pc' = [pc EXCEPT ![c] = "done"]
              /\ attempt' = [attempt EXCEPT ![c] = 0]
              /\ totalProxies' = [totalProxies EXCEPT ![c] = 0]
              /\ proxyIndex' = [proxyIndex EXCEPT ![c] = NoIndex]
              /\ currentProxy' = [currentProxy EXCEPT ![c] = NoProxy]
              /\ lastError' = [lastError EXCEPT ![c] = NoError]
              /\ result' = [result EXCEPT
                              ![c] = Thrown("NoProxiesConfigured", NoError)]
              /\ sent' = [sent EXCEPT ![c] = 0]
              /\ UNCHANGED <<periodServes, firstServed>>
         ELSE \E o \in retryLoop(r0, 0, getProxyCount(r0), today) :
                /\ Continue(c, o, NoError)
                /\ totalProxies' = [totalProxies EXCEPT ![c] = getProxyCount(r0)]
                /\ sent' = [sent EXCEPT ![c] = IF o.kind = "await" THEN 1 ELSE 0]
                /\ periodServes' = ServesAfterLoop(periodServes, r0, o.rot)
                /\ firstServed' =
                     IF o.rot.periodStartDate # r0.periodStartDate
                     THEN NoLog ELSE firstServed
  /\ failedHere' = [failedHere EXCEPT ![c] = {}]
  /\ stale' = [stale EXCEPT ![c] = FALSE]
  /\ outdated' = [outdated EXCEPT ![c] = FALSE]
  /\ interleaved' = [Interleaves(c) EXCEPT ![c] = FALSE]
  /\ UNCHANGED <<today, called>>

(***************************************************************************)
(* makeProxyRequest, from the completion of `await axios(config)` to the   *)
(* return, the throw or the next await.                                    *)
(***************************************************************************)
Resume(c) ==
  /\ pc[c] = "await"
  /\ \E out \in TransportOutcomes(currentProxy[c]) :
       IF out.kind = "response" /\ IsSuccessStatus(out.status)
       THEN /\ SetRot(markUsedToday(Rot, proxyIndex[c]))
            /\ pc' = [pc EXCEPT ![c] = "done"]
            /\ result' = [result EXCEPT
                            ![c] = Success(out.status, currentProxy[c])]
            /\ periodServes' =
                 IF proxyIndex[c] \in DOMAIN periodServes
                 THEN [periodServes EXCEPT
                         ![proxyIndex[c]] = IF @ < 2 THEN @ + 1 ELSE @]
                 ELSE periodServes
            /\ firstServed' =
                 IF firstServed.valid /\ Len(firstServed.idx) < Len(proxies)
                 THEN [firstServed EXCEPT !.idx = Append(@, proxyIndex[c])]
                 ELSE firstServed
            /\ lastError' = [lastError EXCEPT ![c] = NoError]
            /\ currentProxy' = [currentProxy EXCEPT ![c] = NoProxy]
            /\ UNCHANGED <<attempt, totalProxies, proxyIndex, sent, failedHere>>
       ELSE LET r1 == IF out.kind = "response"
                      THEN markFailed(markFailed(Rot, proxyIndex[c]),
                                      proxyIndex[c])
                      ELSE markFailed(Rot, proxyIndex[c])
            IN  \E o \in retryLoop(r1, attempt[c], totalProxies[c], today) :
                  /\ Continue(c, o, ErrorOf(out))
                  /\ sent' = [sent EXCEPT
                                ![c] = IF o.kind = "await" THEN @ + 1 ELSE @]
                  /\ failedHere' = [failedHere EXCEPT
                                      ![c] = @ \cup {proxyIndex[c]}]
                  /\ periodServes' = ServesAfterLoop(periodServes, r1, o.rot)
                  /\ firstServed' = NoLog
                  /\ UNCHANGED totalProxies
  /\ outdated' = [outdated EXCEPT ![c] = FALSE]
  /\ interleaved' = Interleaves(c)
  /\ UNCHANGED <<today, stale, called>>

(***************************************************************************)
(* POST /api/proxies: the lines that parse to a proxy replace the pool; a  *)
(* request with no valid line is answered 400 and changes nothing.         *)
(***************************************************************************)
PoolInputsUpTo(universe, n) == UNION {[1 .. k -> universe] : k \in 0 .. n}

\* proxyRotator.updateProxies(newProxies) is called.
Replaced(newProxies) ==
  /\ SetRot(updateProxies(Rot, newProxies, today))
  /\ stale' = [c \in Calls |-> pc[c] # "idle"]
  /\ outdated' = [c \in Calls |-> pc[c] = "await"]
  /\ periodServes' = NoServes(newProxies)
  /\ firstServed' = [valid |-> TRUE, idx |-> << >>]
  /\ UNCHANGED <<today, callVars, sent, failedHere, interleaved>>

ReplacePool(parsedProxies) ==
  IF Len(parsedProxies) = 0
  THEN UNCHANGED <<rotVars, today, callVars, histVars>>
  ELSE Replaced(parsedProxies)

\* Under concurrency the pool holds proxies that may do anything on each
\* attempt: every run with a reliable or a dead proxy is one of their runs.
PostProxies ==
  \E parsedProxies \in PoolInputsUpTo({ProxyFlaky}, MaxPool) :
    ReplacePool(parsedProxies) /\ UNCHANGED called

(***************************************************************************)
(* Midnight passes.                                                        *)
(***************************************************************************)
Tick ==
  /\ today < MaxDay
  /\ today' = today + 1
  /\ UNCHANGED <<rotVars, callVars, histVars, called>>

(***************************************************************************)
(* `new ProxyRotator([])` at server start; no request has been made.       *)
(***************************************************************************)
Init ==
  /\ proxies = << >>
  /\ failedProxies = {}
  /\ usedProxiesToday = {}
  /\ periodStartDate = 0
  /\ today = 0
  /\ pc = [c \in Calls |-> "idle"]
  /\ attempt = [c \in Calls |-> 0]
  /\ totalProxies = [c \in Calls |-> 0]
  /\ proxyIndex = [c \in Calls |-> NoIndex]
  /\ currentProxy = [c \in Calls |-> NoProxy]
  /\ lastError = [c \in Calls |-> NoError]
  /\ result = [c \in Calls |-> Pending]
  /\ sent = [c \in Calls |-> 0]
  /\ failedHere = [c \in Calls |-> {}]
  /\ stale = [c \in Calls |-> FALSE]
  /\ periodServes = NoServes(<< >>)
  /\ firstServed = NoLog
  /\ outdated = [c \in Calls |-> FALSE]
  /\ interleaved = [c \in Calls |-> FALSE]
  /\ called = NoCall

Next ==
  \/ \E c \in Calls : Start(c)
  \/ \E c \in Calls : Resume(c)
  \/ PostProxies
  \/ Tick

Spec == Init /\ [][Next]_vars

(***************************************************************************)
(* Requests made one after another: the next request begins only when the  *)
(* one before it has returned or thrown, and the pool is replaced only     *)
(* between requests, so one request slot serves them all.  The pools are   *)
(* those of the scenarios: proxies that always answer 2xx, that always     *)
(* fail, or that may do anything.                                          *)
(***************************************************************************)
SoloCall == CHOOSE c \in Calls : \A d \in Calls : c <= d

SoloStart == Start(SoloCall)

SoloResume == Resume(SoloCall)

SoloPostProxies ==
  /\ pc[SoloCall] # "await"
  /\ \E parsedProxies \in PoolInputsUpTo(ProxyUniverse, MaxPool) :
       ReplacePool(parsedProxies) /\ UNCHANGED called

NextSolo ==
  \/ SoloStart
  \/ SoloResume
  \/ SoloPostProxies
  \/ Tick

SpecSolo == Init /\ [][NextSolo]_vars

FairSolo == SpecSolo /\ WF_vars(SoloResume)

(***************************************************************************)
(* Proxy address text.  A string is the sequence of its characters.        *)
(* parseProxy exists twice, in server.js and in src/proxyLoader.js, the    *)
(* same code up to the log prefix.  A parsed Proxy is a record; its auth   *)
(* is the pair <<username, password>>, or the empty tuple for null; the    *)
(* parser returns the tuple of the one Proxy it read, or the empty tuple   *)
(* for null.                                                               *)
(***************************************************************************)
MaxParts == 5     \* most `:`-separated fields in a line given to the parser

Space == " "
Colon == ":"
At == "@"
Hash == "#"
Http == <<"h", "t", "t", "p", ":", "/", "/">>
Https == <<"h", "t", "t", "p", "s", ":", "/", "/">>
Digits == {"0", "3", "4", "8"}

NoAuth == << >>
Auth(username, password) == <<username, password>>
Proxy(host, port, auth) == [host |-> host, port |-> port, auth |-> auth]

RECURSIVE trimStart(_)
trimStart(str) ==
  IF str # << >> /\ Head(str) = Space THEN trimStart(Tail(str)) ELSE str

RECURSIVE trimEnd(_)
trimEnd(str) ==
  IF str # << >> /\ str[Len(str)] = Space
  THEN trimEnd(SubSeq(str, 1, Len(str) - 1)) ELSE str

trim(str) == trimEnd(trimStart(str))

startsWith(str, prefix) ==
  Len(str) >= Len(prefix) /\ SubSeq(str, 1, Len(prefix)) = prefix

\* Position of the first (last) `ch` in str, 0 when there is none.
indexOf(str, ch) ==
  IF \E i \in DOMAIN str : str[i] = ch
  THEN CHOOSE i \in DOMAIN str :
         str[i] = ch /\ \A j \in 1 .. (i - 1) : str[j] # ch
  ELSE 0

lastIndexOf(str, ch) ==
  IF \E i \in DOMAIN str : str[i] = ch
  THEN CHOOSE i \in DOMAIN str :
         str[i] = ch /\ \A j \in (i + 1) .. Len(str) : str[j] # ch
  ELSE 0

RECURSIVE split(_, _)
split(str, sep) ==
  LET i == indexOf(str, sep)
  IN  IF i = 0 THEN <<str>>
      ELSE <<SubSeq(str, 1, i - 1)>> \o split(SubSeq(str, i + 1, Len(str)), sep)

RECURSIVE join(_, _)
join(parts, sep) ==
  IF Len(parts) = 0 THEN << >>
  ELSE IF Len(parts) = 1 THEN parts[1]
       ELSE parts[1] \o <<sep>> \o join(Tail(parts), sep)

\* new URL(str) for str = scheme://[username[:password]@]hostname[:port],
\* the only URLs given to it here: it throws for an empty or blank-holding
\* host, for userinfo that needs escaping and for a port that is not a
\* number below 65536; .port is empty for the default port of the scheme.
URL(str) ==
  LET secure == startsWith(str, Https)
      rest == SubSeq(str, (IF secure THEN Len(Https) ELSE Len(Http)) + 1,
                     Len(str))
      at == lastIndexOf(rest, At)
      userinfo == SubSeq(rest, 1, at - 1)
      hostport == SubSeq(rest, at + 1, Len(rest))
      sep == indexOf(userinfo, Colon)
      username == IF sep = 0 THEN userinfo ELSE SubSeq(userinfo, 1, sep - 1)
      password == IF sep = 0 THEN << >>
                  ELSE SubSeq(userinfo, sep + 1, Len(userinfo))
      col == indexOf(hostport, Colon)
      hostname == IF col = 0 THEN hostport ELSE SubSeq(hostport, 1, col - 1)
      port == IF col = 0 THEN << >>
              ELSE SubSeq(hostport, col + 1, Len(hostport))
      defaultPort == IF secure THEN <<"4", "4", "3">> ELSE <<"8", "0">>
      valid == /\ hostname # << >>
               /\ \A i \in DOMAIN hostname :
                    hostname[i] \notin {Space, At, Colon, Hash} \cup Digits
               /\ \A i \in DOMAIN userinfo :
                    userinfo[i] \notin {Space, At, Hash}
               /\ indexOf(password, Colon) = 0
               /\ \A i \in DOMAIN port : port[i] \in Digits
               /\ Len(port) < 5
               /\ (port # << >> => Head(port) # "0")
  IN  [ok |-> valid, hostname |-> hostname,
       port |-> IF port = defaultPort THEN << >> ELSE port,
       username |-> username, password |-> password]

parseProxy(proxyString) ==
  LET str == trim(proxyString)
      Checked(proxy) ==
        IF proxy.host # << >> /\ proxy.port # << >> THEN <<proxy>> ELSE << >>
  IN  IF str = << >> THEN << >>
      ELSE IF startsWith(str, Http) \/ startsWith(str, Https)
           THEN LET url == URL(str)
                IN  IF ~url.ok THEN << >>
                    ELSE Checked(Proxy(
                           url.hostname,
                           IF url.port # << >> THEN url.port
                           ELSE IF startsWith(str, <<"h", "t", "t", "p", "s">>)
                                THEN <<"4", "4", "3">> ELSE <<"8", "0">>,
                           IF url.username # << >> /\ url.password # << >>
                           THEN Auth(url.username, url.password)
                           ELSE NoAuth))
           ELSE LET parts == split(str, Colon)
                IN  IF Len(parts) >= 2
                    THEN Checked(Proxy(
                           parts[1], parts[2],
                           IF Len(parts) >= 4
                           THEN Auth(parts[3],
                                     join(SubSeq(parts, 4, Len(parts)), Colon))
                           ELSE NoAuth))
                    ELSE << >>

\* Faulty variant: host and port are written without the `:` between them.
formatProxyNoColon(proxy) ==
  (IF proxy.auth # NoAuth
   THEN proxy.auth[1] \o <<Colon>> \o proxy.auth[2] \o <<At>> ELSE << >>)
    \o proxy.host \o proxy.port

\* formatProxy of a Proxy (never null here).
formatProxy(proxy) ==
  LET authStr == IF proxy.auth # NoAuth
                 THEN proxy.auth[1] \o <<Colon>> \o proxy.auth[2] \o <<At>>
                 ELSE << >>
  IN  authStr \o proxy.host \o <<Colon>> \o proxy.port

\* POST /api/proxies: the proxies parsed from the lines of the body.
RECURSIVE parsedProxiesOf(_)
parsedProxiesOf(lines) ==
  IF lines = << >> THEN << >>
  ELSE LET trimmed == trim(Head(lines))
       IN  (IF trimmed = << >> \/ startsWith(trimmed, <<Hash>>)
            THEN << >> ELSE parseProxy(trimmed))
             \o parsedProxiesOf(Tail(lines))

(***************************************************************************)
(* Lines given to the parser: up to MaxParts fields joined by `:`, the     *)
(* fields empty, a word, a number, holding an `@` or a blank; URLs with    *)
(* and without userinfo and port; a comment.                               *)
(***************************************************************************)
Fields == {<< >>, <<"a">>, <<"8">>, <<"a", "@", "a">>, <<" ", "a">>,
           <<"8", " ">>}

DelimitedLines ==
  {join(parts, Colon) :
     parts \in UNION {[1 .. k -> Fields] : k \in 1 .. MaxParts}}

UrlLines ==
  {scheme \o userinfo \o host \o port :
     scheme \in {Http, Https},
     userinfo \in {<< >>, <<"a", "@">>, <<"a", ":", "a", "a", "@">>},
     host \in {<< >>, <<"a">>, <<"a", "a">>},
     port \in {<< >>, <<":">>, <<":", "8">>, <<":", "8", "0">>,
               <<":", "4", "4", "3">>, <<":", "a">>}}

RawLines == DelimitedLines \cup UrlLines \cup {<<Hash, "a", Colon, "8">>}

\* A line is taken from the proxy file or the request body ...
InitParser ==
  /\ proxies = << >>
  /\ failedProxies = {}
  /\ usedProxiesToday = {}
  /\ periodStartDate = 0
  /\ today = 0
  /\ pc = [c \in Calls |-> "idle"]
  /\ attempt = [c \in Calls |-> 0]
  /\ totalProxies = [c \in Calls |-> 0]
  /\ proxyIndex = [c \in Calls |-> NoIndex]
  /\ currentProxy = [c \in Calls |-> NoProxy]
  /\ lastError = [c \in Calls |-> NoError]
  /\ result = [c \in Calls |-> Pending]
  /\ sent = [c \in Calls |-> 0]
  /\ failedHere = [c \in Calls |-> {}]
  /\ stale = [c \in Calls |-> FALSE]
  /\ periodServes = NoServes(<< >>)
  /\ firstServed = NoLog
  /\ outdated = [c \in Calls |-> FALSE]
  /\ interleaved = [c \in Calls |-> FALSE]
  /\ \E line \in RawLines :
       called = Call("line", line, << >>, constructor(<< >>, 0), 0)

Parsed(op, arg, ret) ==
  /\ called' = Call(op, arg, ret, called.before, called.now)
  /\ UNCHANGED <<rotVars, today, callVars, histVars>>

\* ... is parsed, ...
ParseLine ==
  /\ called.op = "line"
  /\ Parsed("parseProxy", called.arg, parseProxy(called.arg))

\* ... the Proxy read from it is formatted, ...
FormatParsed ==
  /\ called.op = "parseProxy" /\ called.ret # << >>
  /\ Parsed("formatProxy", called.ret[1], formatProxy(called.ret[1]))

\* ... and the formatted text is parsed again.
ParseFormatted ==
  /\ called.op = "formatProxy"
  /\ Parsed("parseProxy", called.ret, parseProxy(called.ret))

NextParser ==
  \/ ParseLine
  \/ FormatParsed
  \/ ParseFormatted

SpecParser == InitParser /\ [][NextParser]_vars

(***************************************************************************)
(* The rotator on its own: ProxyRotator is an exported class, and any      *)
(* caller may invoke its public methods in any order with any argument,    *)
(* next to the pool endpoint POST /api/proxies.  Each call is logged in    *)
(* `called` together with the rotator's fields before it; the fields after *)
(* it are the rotator's current ones, since only the clock moves between   *)
(* two calls.                                                              *)
(***************************************************************************)
\* Index arguments: null or negative, in range, and past the longest pool.
ArgIndices == NoIndex .. MaxPool

\* Request bodies: up to MaxPool lines, each a proxy address, a comment or
\* a line without a port.
BodyLines == {<<"a", Colon, "8", Space>>, <<Hash, "a", Colon, "8">>, <<"a">>}

Bodies == PoolInputsUpTo(BodyLines, MaxPool)

\* The proxy lists these bodies parse to, the empty one among them.
ParsedPools == {parsedProxiesOf(lines) : lines \in Bodies}

Logged(op, arg, ret) ==
  /\ called' = Call(op, arg, ret, Rot, today)
  /\ UNCHANGED <<today, callVars, histVars>>

CallGetRandomProxy ==
  \E s \in getRandomProxy(Rot, today) :
    SetRot(s.rot) /\ Logged("getRandomProxy", NoIndex, s.index)

CallMarkUsedToday ==
  \E i \in ArgIndices :
    SetRot(markUsedToday(Rot, i)) /\ Logged("markUsedToday", i, NoIndex)

CallMarkFailed ==
  \E i \in ArgIndices :
    SetRot(markFailed(Rot, i)) /\ Logged("markFailed", i, NoIndex)

CallResetFailedProxies ==
  SetRot(resetFailedProxies(Rot)) /\ Logged("resetFailedProxies", NoIndex, NoIndex)

CallUpdateProxies ==
  \E newProxies \in ParsedPools :
    /\ Replaced(newProxies)
    /\ called' = Call("updateProxies", newProxies, NoIndex, Rot, today)

CallGetUsedProxiesCount ==
  LET c == getUsedProxiesCount(Rot, today)
  IN  SetRot(c.rot) /\ Logged("getUsedProxiesCount", NoIndex, c.value)

CallGetRemainingProxiesCount ==
  LET c == getRemainingProxiesCount(Rot, today)
  IN  SetRot(c.rot) /\ Logged("getRemainingProxiesCount", NoIndex, c.value)

CallGetDaysRemainingInPeriod ==
  /\ Logged("getDaysRemainingInPeriod", NoIndex,
            getDaysRemainingInPeriod(Rot, today))
  /\ UNCHANGED rotVars

CallGetProxyCount ==
  Logged("getProxyCount", NoIndex, getProxyCount(Rot)) /\ UNCHANGED rotVars

\* POST /api/proxies with the given lines as body, answered 400 or 200.
CallPostProxies ==
  \E lines \in Bodies :
    LET parsedProxies == parsedProxiesOf(lines)
    IN  /\ ReplacePool(parsedProxies)
        /\ called' = Call("postProxies", lines,
                          IF Len(parsedProxies) = 0 THEN 400 ELSE 200,
                          Rot, today)

NextRotator ==
  \/ CallGetRandomProxy
  \/ CallMarkUsedToday
  \/ CallMarkFailed
  \/ CallResetFailedProxies
  \/ CallUpdateProxies
  \/ CallGetUsedProxiesCount
  \/ CallGetRemainingProxiesCount
  \/ CallGetDaysRemainingInPeriod
  \/ CallGetProxyCount
  \/ CallPostProxies
  \/ Tick

SpecRotator == Init /\ [][NextRotator]_vars

(***************************************************************************)
(* Properties.                                                             *)
(***************************************************************************)

\* C1: on a non-empty pool getRandomProxy never returns an index that is in
\* failedProxies when it is called, through the eligible set or through the
\* fallback, and it returns null when every index is in failedProxies.
C1_NeverSelectsFailed ==
  Len(proxies) > 0 =>
    \A s \in getRandomProxy(Rot, today) :
      /\ s.index # NoIndex =>
           s.index \in Indices(proxies) /\ s.index \notin failedProxies
      /\ Indices(proxies) \subseteq failedProxies => s.index = NoIndex

\* A request was handed, through the fallback, a proxy already used in the
\* period while another proxy was marked failed.
C1_Witness ==
  \E c \in Calls :
    /\ pc[c] = "await" /\ ~stale[c]
    /\ \A d \in Calls \ {c} : pc[d] = "idle"
    /\ failedProxies # {} /\ failedProxies = failedHere[c]
    /\ proxyIndex[c] \in usedProxiesToday
    /\ proxyIndex[c] \notin failedProxies

\* The request c took a step: its Transport call completed.
Stepped(c) ==
  pc[c] = "await" /\ (pc'[c] = "done" \/ attempt'[c] # attempt[c])

\* C2: makeProxyRequest returns a response only for a status in [200, 300),
\* and then the serving proxy's index was marked used; on any other status
\* nothing is returned, the index is marked failed, not used, and the loop
\* goes on to its next iteration.
C2_ReturnsOnly2xx ==
  [][\A c \in Calls :
       Stepped(c) =>
         LET idx == proxyIndex[c]
             err == IF pc'[c] = "done" THEN result'[c].lastError
                    ELSE lastError'[c]
         IN  /\ result'[c].kind = "success" =>
                  /\ result'[c].status >= 200 /\ result'[c].status < 300
                  /\ result'[c].proxyUsed = currentProxy[c]
                  /\ idx \in Indices(proxies) => idx \in usedProxiesToday'
             /\ err = StatusError =>
                  /\ result'[c].kind # "success"
                  /\ idx \in Indices(proxies) => idx \in failedProxies'
                  /\ idx \notin usedProxiesToday => idx \notin usedProxiesToday'
                  /\ attempt'[c] = attempt[c] + 1
     ]_vars

\* A request returned a 299 response after an earlier attempt of it failed.
C2_Witness ==
  \E c \in Calls :
    /\ pc[c] = "done" /\ result[c].kind = "success"
    /\ result[c].status = 299
    /\ failedHere[c] # {}

\* The bounds of C3 on one state.
C3_Bound ==
  \A c \in Calls :
    /\ sent[c] <= 2 * totalProxies[c]
    /\ attempt[c] <= 2 * totalProxies[c] + 1
    /\ pc[c] = "await" => attempt[c] <= 2 * totalProxies[c]
    /\ (pc[c] = "done" /\ result[c].kind = "MaxAttemptsExceeded")
         <=> (totalProxies[c] > 0 /\ attempt[c] > 2 * totalProxies[c])
    /\ result[c].kind = "MaxAttemptsExceeded" =>
         messageError(result[c]) \in {StatusError, NetworkError}

\* C3: a request on a non-empty pool makes at most 2 x totalProxies loop
\* iterations that reach the Transport, whatever other requests and pool
\* replacements do meanwhile: each completed Transport call ends the request
\* or advances its counter by one, and the counter never passes the limit by
\* more than the iteration that throws.  The request throws the max-attempts
\* error exactly when the counter exceeds the limit, and the error quotes
\* the last error seen.
C3_BoundedAttempts ==
  /\ []C3_Bound
  /\ [][\A c \in Calls :
          Stepped(c) =>
            /\ attempt'[c] = IF result'[c].kind = "success"
                             THEN attempt[c] ELSE attempt[c] + 1
            /\ totalProxies'[c] = totalProxies[c]
            /\ sent'[c] = IF pc'[c] = "await" THEN sent[c] + 1 ELSE sent[c]
       ]_vars

\* A request used up its whole allowance of Transport calls.
C3_Witness ==
  \E c \in Calls :
    /\ result[c].kind = "MaxAttemptsExceeded"
    /\ sent[c] = 2 * totalProxies[c]
    /\ ~stale[c]

\* C4 as stated: within one period no proxy serves two successful requests.
C4_OneServePerPeriod ==
  \A i \in DOMAIN periodServes : periodServes[i] <= 1

\* C4, amended: with requests made one after another, a proxy that already
\* served a request in the period serves another one only through the
\* fallback, i.e. when every proxy not yet used in the period has failed in
\* the request's cycle.
C4_RepeatOnlyByFallback ==
  [][\A c \in Calls :
       ( /\ pc[c] = "await" /\ pc'[c] = "done"
         /\ result'[c].kind = "success"
         /\ proxyIndex[c] \in DOMAIN periodServes
         /\ periodServes[proxyIndex[c]] >= 1 )
       => \A j \in Indices(proxies) :
            j \notin usedProxiesToday => j \in failedProxies
     ]_vars

\* A proxy served a second request of the period.
C4_Witness ==
  \E i \in DOMAIN periodServes : periodServes[i] = 2

IsDistinct(q) == \A i, j \in DOMAIN q : i # j => q[i] # q[j]

\* C5: from a freshly replaced pool of N proxies, with every Transport call
\* succeeding, no 2-day reset and requests made one after another, the first
\* N requests are served by N different indices.
C5_FirstNDistinct ==
  firstServed.valid =>
    /\ Len(firstServed.idx) <= Len(proxies)
    /\ IsDistinct(firstServed.idx)
    /\ \A k \in DOMAIN firstServed.idx : firstServed.idx[k] \in Indices(proxies)

\* As many requests in a row as the longest pool has proxies were each
\* served by another proxy of it.
C5_Witness ==
  /\ firstServed.valid
  /\ Len(proxies) = MaxPool
  /\ Len(firstServed.idx) = MaxPool

\* A pool in which at least one proxy always succeeds and the others always fail.
GoodPool(p) ==
  /\ \A i \in DOMAIN p : p[i] \in {ProxyUp, ProxyDown}
  /\ \E i \in DOMAIN p : p[i] = ProxyUp

AllDown(p) == Len(p) > 0 /\ \A i \in DOMAIN p : p[i] = ProxyDown

\* The safety half of C6.
C6_Safe ==
  \A c \in Calls :
    (pc[c] # "idle" /\ ~stale[c] /\ GoodPool(proxies)) =>
      /\ sent[c] <= 2 * Len(proxies)
      /\ failedHere[c] \subseteq failedProxies
      /\ \A i \in failedHere[c] : proxies[i + 1] = ProxyDown
      /\ pc[c] = "done" =>
           /\ result[c].kind = "success"
           /\ result[c].proxyUsed = ProxyUp
           /\ proxies[proxyIndex[c] + 1] = ProxyUp

\* C6: a request that runs alone on a pool in which at least one proxy
\* always succeeds and the others always fail, whatever was used in the
\* period before, returns successfully through a succeeding proxy within
\* 2 x poolSize attempts, and every failing proxy it tried is marked failed.
C6_SucceedsViaGoodProxy ==
  /\ []C6_Safe
  /\ \A c \in Calls :
       (pc[c] = "await" /\ GoodPool(proxies))
         ~> (pc[c] = "done" /\ result[c].kind = "success")

\* On the pool [down, up] with proxy 1 used in the period, the request tried
\* proxy 0, marked it failed and returned through proxy 1.
C6_Witness ==
  \E c \in Calls :
    /\ ~stale[c] /\ proxies = <<ProxyDown, ProxyUp>>
    /\ pc[c] = "done" /\ result[c].kind = "success"
    /\ failedHere[c] = {0} /\ proxyIndex[c] = 1
    /\ periodServes[1] = 2

\* C7: a request that runs alone on a pool of N proxies that all fail throws
\* the all-proxies-failed error after exactly N Transport calls, one for
\* each proxy.
C7_AllFailAfterN ==
  \A c \in Calls :
    (pc[c] = "done" /\ ~stale[c] /\ AllDown(proxies)) =>
      /\ result[c].kind = "AllProxiesFailed"
      /\ sent[c] = Len(proxies)
      /\ failedHere[c] = Indices(proxies)
      /\ messageError(result[c]) # NoError

\* A request on the longest pool, all of failing proxies, failed after one
\* Transport call for each of them.
C7_Witness ==
  \E c \in Calls :
    /\ pc[c] = "done" /\ ~stale[c] /\ AllDown(proxies)
    /\ Len(proxies) = MaxPool /\ sent[c] = MaxPool
    /\ result[c].kind = "AllProxiesFailed"

\* C8 as stated: among concurrent requests on a pool that is not replaced, a
\* request never tries again a proxy that has failed in it.
C8_NoRetryOfFailed ==
  \A c \in Calls :
    (pc[c] = "await" /\ ~stale[c]) => proxyIndex[c] \notin failedHere[c]

\* C9 as stated: among concurrent requests on a pool that is not replaced, a
\* request throws the all-proxies-failed error only if each proxy of the
\* pool was tried by it and failed in it.
C9_AllFailedMeansAllTried ==
  \A c \in Calls :
    (pc[c] = "done" /\ ~stale[c] /\ result[c].kind = "AllProxiesFailed") =>
      Indices(proxies) \subseteq failedHere[c]

C11_IndicesInPool ==
  /\ usedProxiesToday \subseteq Indices(proxies)
  /\ failedProxies \subseteq Indices(proxies)

\* markUsedToday was called with an index past the end of a pool that has
\* used and failed entries.
C11_Witness ==
  /\ called.op = "markUsedToday"
  /\ called.arg >= Len(proxies)
  /\ usedProxiesToday # {} /\ failedProxies # {}

\* C12: when the pool has been replaced by a shorter one while a request
\* was waiting for the Transport, the markUsedToday or markFailed call the
\* request then makes with an index that only the old pool had is rejected:
\* usedProxiesToday, failedProxies, periodStartDate and the pool are as
\* before the call.
C12_StaleIndexRejected ==
  /\ [](\A c \in Calls :
          (pc[c] = "await" /\ proxyIndex[c] >= Len(proxies)) =>
            /\ markUsedToday(Rot, proxyIndex[c]) = Rot
            /\ markFailed(Rot, proxyIndex[c]) = Rot)
  /\ [][\A c \in Calls :
          (Stepped(c) /\ proxyIndex[c] >= Len(proxies)) =>
            /\ result'[c].kind = "success" => UNCHANGED rotVars
            /\ proxyIndex[c] \notin usedProxiesToday'
            /\ proxyIndex[c] \notin failedProxies'
       ]_vars

\* A request returned a response obtained through a proxy whose index the
\* pool, replaced meanwhile by a shorter one, no longer has.
C12_Witness ==
  \E c \in Calls :
    /\ pc[c] = "done" /\ result[c].kind = "success"
    /\ stale[c] /\ proxyIndex[c] >= Len(proxies)

\* C13 as stated: when the pool is replaced while a request waits for the
\* Transport call made through the proxy at an index selected from the old
\* pool, the outcome of that call is not recorded against the new pool: the
\* index enters neither usedProxiesToday nor failedProxies through it, also
\* when the new pool has that index.
C13_OutdatedOutcomeDropped ==
  [][\A c \in Calls :
       (Stepped(c) /\ outdated[c]) =>
         /\ proxyIndex[c] \in usedProxiesToday' =>
              proxyIndex[c] \in usedProxiesToday
         /\ proxyIndex[c] \in failedProxies' =>
              proxyIndex[c] \in failedProxies
     ]_vars

\* The logged call was getRandomProxy on a non-empty pool all of whose
\* indices were in usedProxiesToday, less than 2 days into the period.
CalledOnUsedUpPool ==
  /\ called.op = "getRandomProxy"
  /\ Len(called.before.proxies) > 0
  /\ Indices(called.before.proxies) \subseteq called.before.usedProxiesToday
  /\ getDaysSincePeriodStart(called.before, called.now) < 2

\* C14 as stated: such a call clears usedProxiesToday and returns an index.
C14_ResetThenSome ==
  CalledOnUsedUpPool => (usedProxiesToday = {} /\ called.ret # NoIndex)

\* C14, amended: such a call clears usedProxiesToday, and returns an index,
\* one that is not in failedProxies, unless failedProxies holds every index
\* of the pool; then it returns null.
C14_ResetThenSomeUnlessAllFailed ==
  CalledOnUsedUpPool =>
    /\ usedProxiesToday = {}
    /\ called.ret = NoIndex <=>
         Indices(called.before.proxies) \subseteq called.before.failedProxies
    /\ called.ret # NoIndex =>
         /\ called.ret \in Indices(proxies)
         /\ called.ret \notin failedProxies

\* getRandomProxy, called on a used-up pool of the longest size with one
\* proxy marked failed, returned another one.
C14_Witness ==
  /\ CalledOnUsedUpPool
  /\ Len(proxies) = MaxPool
  /\ failedProxies # {}
  /\ called.ret # NoIndex

\* The logged call was getRandomProxy, 2 days or more into the period.
CalledAfterPeriod ==
  /\ called.op = "getRandomProxy"
  /\ getDaysSincePeriodStart(called.before, called.now) >= 2

\* What C15 says of the rotator after such a call.
PeriodRestarted ==
  /\ usedProxiesToday = {}
  /\ periodStartDate = called.now
  /\ getDaysSincePeriodStart(Rot, called.now) = 0

\* C15 as stated: a getRandomProxy call made 2 days or more after
\* periodStartDate leaves usedProxiesToday empty and periodStartDate at the
\* day of the call, so that no day has elapsed in the period.
C15_PeriodRestarts ==
  CalledAfterPeriod => PeriodRestarted

\* C15, amended: the same for a call on a non-empty pool, whatever was in
\* usedProxiesToday, and the call changes neither the pool nor failedProxies;
\* on an empty pool the call returns null and changes nothing.
C15_PeriodRestartsOnPool ==
  CalledAfterPeriod =>
    /\ Len(called.before.proxies) > 0 => PeriodRestarted
    /\ Len(called.before.proxies) = 0 =>
         Rot = called.before /\ called.ret = NoIndex
    /\ proxies = called.before.proxies
    /\ failedProxies = called.before.failedProxies

\* getRandomProxy was called 2 days into a period in which some, not all,
\* proxies of the pool had been used.
C15_Witness ==
  /\ CalledAfterPeriod
  /\ called.before.usedProxiesToday # {}
  /\ called.before.usedProxiesToday # Indices(proxies)
  /\ called.before.periodStartDate # called.now

\* resetFailedProxies() followed at once by getRandomProxy(), as at the
\* entry of makeProxyRequest, can return index i.
CanReturnAfterReset(i) ==
  \E s \in getRandomProxy(resetFailedProxies(Rot), today) : s.index = i

\* C16 as stated: every index in failedProxies can be returned by the
\* getRandomProxy() call that follows resetFailedProxies().
C16_FailedSelectableAfterReset ==
  \A i \in failedProxies : CanReturnAfterReset(i)

\* C16, amended: an index in failedProxies can be returned by the
\* getRandomProxy() call that follows resetFailedProxies() exactly when it
\* is not excluded by the quota of the period: it is not in
\* usedProxiesToday, or the call empties usedProxiesToday because 2 days
\* have passed or every index of the pool is in it.
C16_FailedSelectableUnlessUsed ==
  \A i \in failedProxies :
    CanReturnAfterReset(i) <=>
      \/ i \notin usedProxiesToday
      \/ getDaysSincePeriodStart(Rot, today) >= 2
      \/ Indices(proxies) \subseteq usedProxiesToday

\* On the longest pool one proxy is marked failed and another used: the
\* failed one can be returned after the reset.
C16_Witness ==
  /\ Len(proxies) = MaxPool
  /\ \E i \in failedProxies :
       /\ i \notin usedProxiesToday /\ usedProxiesToday # {}
       /\ CanReturnAfterReset(i)

\* C17 as stated: in every reachable state a call of a stats query leaves
\* the pool, usedProxiesToday, failedProxies and periodStartDate as they
\* are.  getProxyCount and getDaysRemainingInPeriod only read; the two
\* counts run checkAndResetDailyUsage first.
C17_StatsReadOnly ==
  /\ getUsedProxiesCount(Rot, today).rot = Rot
  /\ getRemainingProxiesCount(Rot, today).rot = Rot

\* The step parses the text that formatProxy has just produced.
Reparsed ==
  called.op = "formatProxy" /\ called'.op = "parseProxy"

\* C19 as stated: parsing the text formatProxy produces for a Proxy, with
\* or without auth, yields a Proxy with the same host, port and auth.
C19_RoundTrip ==
  [][Reparsed => called'.ret = <<called.arg>>]_vars

\* A Proxy without auth whose host and port are not empty and hold no `:`
\* and whose text neither begins or ends with a blank nor begins with a
\* URL scheme.
Plain(proxy) ==
  /\ proxy.auth = NoAuth
  /\ indexOf(proxy.host, Colon) = 0 /\ indexOf(proxy.port, Colon) = 0
  /\ proxy.host # << >> /\ proxy.port # << >>
  /\ Head(proxy.host) # Space /\ proxy.port[Len(proxy.port)] # Space
  /\ ~startsWith(formatProxy(proxy), Http)
  /\ ~startsWith(formatProxy(proxy), Https)

\* C19, amended: parsing the text `host:port` that formatProxy produces for
\* such a Proxy yields the same Proxy.
C19_RoundTripWithoutAuth ==
  [][(Reparsed /\ Plain(called.arg)) => called'.ret = <<called.arg>>]_vars

\* The Proxy read from `http://aa` was formatted as `aa:80` and read back.
C19_Witness ==
  /\ called.op = "parseProxy"
  /\ called.arg = <<"a", "a", Colon, "8", "0">>
  /\ called.ret = <<Proxy(<<"a", "a">>, <<"8", "0">>, NoAuth)>>

\* C18: a POST /api/proxies whose body yields no valid proxy is rejected
\* and leaves the pool, usedProxiesToday, failedProxies and periodStartDate
\* as they were; one whose body yields at least one valid proxy makes
\* these the pool, and in the same step empties usedProxiesToday and
\* failedProxies and sets periodStartDate to the day of the request.
C18_RejectOrReplace ==
  called.op = "postProxies" =>
    LET parsedProxies == parsedProxiesOf(called.arg)
    IN  /\ parsedProxies = << >> =>
             /\ Rot = called.before
             /\ called.ret = 400
        /\ parsedProxies # << >> =>
             /\ proxies = parsedProxies
             /\ usedProxiesToday = {} /\ failedProxies = {}
             /\ periodStartDate = called.now
             /\ called.ret = 200

\* A pool with used and failed proxies, in a period begun on an earlier
\* day, was replaced through a body with one comment and one address.
C18_Witness ==
  /\ called.op = "postProxies" /\ called.ret = 200
  /\ Len(called.arg) > Len(proxies)
  /\ called.before.usedProxiesToday # {}
  /\ called.before.failedProxies # {}
  /\ called.before.periodStartDate # called.now

\* C20: getRandomProxy returns null exactly when the pool is empty or every
\* index of the pool is in failedProxies; otherwise it returns an index of
\* the pool that is not in failedProxies, also when every such index is in
\* usedProxiesToday already.
C20_NullIffEmptyOrAllFailed ==
  called.op = "getRandomProxy" =>
    /\ called.ret = NoIndex <=>
         \/ Len(called.before.proxies) = 0
         \/ Indices(called.before.proxies) \subseteq called.before.failedProxies
    /\ called.ret # NoIndex =>
         /\ called.ret \in Indices(called.before.proxies)
         /\ called.ret \notin called.before.failedProxies

\* getRandomProxy was called while each proxy that had not failed was used
\* in the period, no reset being due: it returned one of them.
C20_Witness ==
  /\ called.op = "getRandomProxy"
  /\ called.ret # NoIndex
  /\ called.ret \in called.before.usedProxiesToday
  /\ called.before.failedProxies # {}
  /\ usedProxiesToday = called.before.usedProxiesToday
  /\ periodStartDate = called.before.periodStartDate


\* C21 as stated: when getRandomProxy returns null to a request that began
\* on a non-empty pool while failedProxies holds fewer indices than the
\* totalProxies the request read at its start, the request clears
\* failedProxies and selects again instead of throwing; so a request whose
\* Transport call completed throws upon a null selection only with
\* failedProxies.size >= totalProxies.
C21_NoneRetriesUnlessAllFailed ==
  [][\A c \in Calls :
       ( /\ pc[c] = "await" /\ pc'[c] = "done"
         /\ totalProxies[c] > 0
         /\ result'[c].kind \in {"AllProxiesFailed", "NoProxiesAvailable"} )
       => Cardinality(failedProxies') >= totalProxies[c]
     ]_vars


\* The logged call is one that runs checkAndResetDailyUsage first.
ResetChecked ==
  called.op \in {"getRandomProxy", "getUsedProxiesCount",
                 "getRemainingProxiesCount"}

\* The logged call found the pool covered by usedProxiesToday, less than 2
\* days into the period.
QuotaExhausted ==
  /\ Cardinality(called.before.usedProxiesToday) >= Len(called.before.proxies)
  /\ getDaysSincePeriodStart(called.before, called.now) < 2

\* The logged call ran the 2-day reset, ran the full-pool reset, or replaced
\* the pool.
TwoDayReset ==
  /\ ResetChecked /\ Len(called.before.proxies) > 0
  /\ getDaysSincePeriodStart(called.before, called.now) >= 2

FullPoolReset ==
  ResetChecked /\ Len(called.before.proxies) > 0 /\ QuotaExhausted

PoolReplaced ==
  \/ called.op = "updateProxies"
  \/ called.op = "postProxies" /\ called.ret = 200

\* C22: getRandomProxy adds no index to usedProxiesToday nor to
\* failedProxies (it leaves failedProxies and the pool as they were); when it
\* finds usedProxiesToday covering the pool less than 2 days into the period
\* it empties usedProxiesToday and leaves periodStartDate and failedProxies
\* unchanged; and whatever the call, usedProxiesToday loses an index only by
\* the 2-day reset, the full-pool reset or a pool replacement, never by
\* resetFailedProxies or markFailed.
C22_SelectionFrame ==
  /\ called.op = "getRandomProxy" =>
       /\ usedProxiesToday \subseteq called.before.usedProxiesToday
       /\ failedProxies = called.before.failedProxies
       /\ proxies = called.before.proxies
  /\ (called.op = "getRandomProxy" /\ QuotaExhausted) =>
       /\ usedProxiesToday = {}
       /\ periodStartDate = called.before.periodStartDate
       /\ failedProxies = called.before.failedProxies
  /\ ~(called.before.usedProxiesToday \subseteq usedProxiesToday) =>
       TwoDayReset \/ FullPoolReset \/ PoolReplaced
  /\ called.op \in {"resetFailedProxies", "markFailed"} =>
       usedProxiesToday = called.before.usedProxiesToday

\* getRandomProxy, called the day after the period began on the longest pool
\* with every proxy used and one marked failed, emptied usedProxiesToday and
\* returned a proxy.
C22_Witness ==
  /\ called.op = "getRandomProxy" /\ QuotaExhausted
  /\ Len(called.before.proxies) = MaxPool
  /\ called.before.usedProxiesToday = Indices(proxies)
  /\ called.now = called.before.periodStartDate + 1
  /\ failedProxies # {}
  /\ called.ret # NoIndex
  /\ usedProxiesToday = {}


\* Request c has run, so far or to its end, without another request taking
\* a step during it and without the pool being replaced, on a non-empty
\* pool.
RanAlone(c) ==
  /\ pc[c] # "idle" /\ totalProxies[c] > 0
  /\ ~interleaved[c] /\ ~stale[c]

\* C23: a request during which no other request takes a step and the pool
\* is not replaced, on a non-empty pool, never tries an index a second time,
\* issues at most totalProxies Transport calls, each failed one leaving its
\* index in failedProxies while the request runs, and does not throw the
\* max-attempts error; a
\* request that throws the max-attempts error was interleaved with another
\* request or with a pool replacement.
C23_AloneWithinPoolSize ==
  \A c \in Calls :
    /\ RanAlone(c) =>
         /\ totalProxies[c] = Len(proxies)
         /\ pc[c] = "await" => proxyIndex[c] \notin failedHere[c]
         /\ sent[c] <= totalProxies[c]
         /\ Cardinality(failedHere[c]) =
              IF pc[c] = "await" THEN sent[c] - 1
              ELSE IF result[c].kind = "success" THEN sent[c] - 1 ELSE sent[c]
         /\ pc[c] = "await" => failedHere[c] \subseteq failedProxies
         /\ result[c].kind # "MaxAttemptsExceeded"
    /\ result[c].kind = "MaxAttemptsExceeded" =>
         interleaved[c] \/ stale[c]

\* A request that ran alone on the longest pool tried every proxy of it
\* once and threw the all-proxies-failed error, after another request on
\* that pool had thrown the max-attempts error because requests took steps
\* during it.
C23_Witness ==
  \E c, d \in Calls :
    /\ RanAlone(c) /\ pc[c] = "done"
    /\ totalProxies[c] = MaxPool /\ sent[c] = MaxPool
    /\ result[c].kind = "AllProxiesFailed"
    /\ pc[d] = "done" /\ result[d].kind = "MaxAttemptsExceeded"
    /\ interleaved[d] /\ ~stale[d]

=============================================================================
